---------------------------- MODULE Spec2Model ----------------------------
(***************************************************************************)
(* A model of GatewayClient and Reconnecter (src/src/client.ts): the       *)
(* observer registry, the push dispatcher installed as the transport's     *)
(* onPush hook, and the resubscription coordinator installed as its        *)
(* onPeerClosed hook.                                                      *)
(*                                                                         *)
(* JavaScript runs one task at a time.  Every action below is one          *)
(* synchronous stretch of a handler: from its entry, or from the point     *)
(* where an await resumes, to its next await or its end.  A JavaScript Map *)
(* is a function whose domain is the set of its keys; the order in which a *)
(* Map is iterated is left open (the model allows every order).            *)
(***************************************************************************)
EXTENDS Integers, Sequences, FiniteSets, TLC

\* ------------------------------------------------------------------ bounds
\* The number of send() calls that may be awaiting their answer at once.
MaxPending == 2
\* The number of retry timers that may be scheduled at once.
MaxTimers == 2
\* The number of onPeerClosed handlers that may be awaiting Recover() at once.
MaxRecover == 1
\* The number of promises returned by callbacks that may be unsettled at once.
MaxAsync == 1
\* The number of identifiers getNextReqId is asked for.
MaxIds == 4

\* ------------------------------------------------------------- input sets
Cmds == {"a", "b"}
Observers == {"o1", "o2"}
\* Callback functions, told apart by identity only.
Cbs == {"f", "g"}
\* The subscribe calls callers make: <<cmd, observer, callback>>.  Channel a
\* has two observers, and o1 comes with either callback there.
SubscribeInputs ==
    { <<"a", "o1", "f">>, <<"a", "o1", "g">>, <<"a", "o2", "g">>,
      <<"b", "o1", "f">> }

X_REQ_ID == "X-Req-Id"
API_KEY == "api"
\* The value getNextReqId returns, as far as this model reads it: non-empty.
GeneratedReqId == "generated"

\* -------------------------------------------------------------- Map helpers
EmptyMap == [k \in {} |-> ""]
MapHas(m, k) == k \in DOMAIN m
MapSet(m, k, v) == [x \in (DOMAIN m) \cup {k} |-> IF x = k THEN v ELSE m[x]]
MapDelete(m, k) == [x \in (DOMAIN m) \ {k} |-> m[x]]
MapSize(m) == Cardinality(DOMAIN m)
MapGetOr(m, k, d) == IF k \in DOMAIN m THEN m[k] ELSE d

\* Header maps a caller may pass: none, a request id of its own, and one
\* that sets the reserved key.
NoHeaders == EmptyMap
HeaderInputs ==
    { NoHeaders,
      [k \in {X_REQ_ID} |-> "rid1"],
      [k \in {API_KEY} |-> "Evil"] }

\* ------------------------------------------------------------- bag helpers
\* A bag is a function from its elements to their positive counts.
EmptyBag == [e \in {} |-> 0]
BagAdd(b, e) ==
    [x \in (DOMAIN b) \cup {e} |->
        IF x = e THEN (IF e \in DOMAIN b THEN b[e] + 1 ELSE 1) ELSE b[x]]
BagRemove(b, e) ==
    IF b[e] > 1 THEN [b EXCEPT ![e] = @ - 1]
    ELSE [x \in (DOMAIN b) \ {e} |-> b[x]]
RECURSIVE SumCounts(_, _)
SumCounts(S, b) ==
    IF S = {} THEN 0
    ELSE LET e == CHOOSE x \in S : TRUE IN b[e] + SumCounts(S \ {e}, b)
BagSize(b) == SumCounts(DOMAIN b, b)

VARIABLES
    callbacks,   \* GatewayClient.callbacks: cmd -> (observer -> callback)
    pending,     \* the bag of send() calls awaiting their answer
    isActive,    \* Reconnecter.isActive
    retryTimer,  \* Reconnecter.retryTimer: a timer handle, or NoTimer for null
    timers,      \* the timer handles scheduled and neither fired nor cleared
    recovering,  \* the onPeerClosed handlers awaiting client.Recover()
    disp,        \* the onPush handler between its first callback and its end
    asyncOut,    \* the unsettled promises callbacks returned
    last,        \* what the latest step did (the handler that ran, its outcome)
    globalSeqId, \* GatewayClient.globalSeqId, the static counter of getNextReqId
    issued,      \* the identifiers getNextReqId has returned, in order
    probe        \* the latest call of a function of the library: input, output

regVars == <<callbacks, pending>>
recVars == <<isActive, retryTimer, timers, recovering>>
pushVars == <<disp, asyncOut>>
auxVars == <<globalSeqId, issued, probe>>
vars == <<callbacks, pending, isActive, retryTimer, timers, recovering,
          disp, asyncOut, last, globalSeqId, issued, probe>>

\* -------------------------------------------------------- the step record
NoReq == [api |-> "", cmd |-> << >>, header |-> EmptyMap]
NoArgs == [cmd |-> "", data |-> "", header |-> EmptyMap]
NoCalls == [o \in Observers |-> 0]
NoPush == [kind |-> "none", cmd |-> "", data |-> "", header |-> EmptyMap]

\* The record of one step: the handler that ran, its arguments, how it ended
\* (result, error), the request it handed to client.Send (NoReq when none),
\* the caller's header map as passed (hdrIn) and as the handler left it
\* (hdr), the registry as the
\* step found it (pre), and what the awaited send() threw (sendError, ""
\* when nothing), and whether JSON.stringify accepts the data of a send
\* (data: "json", or "cyclic"), whether the attempt that ended began before
\* the latest peer-closed event (stale), and whether the subscribe that
\* ended had found the channel with an answered observer (joined).  The
\* other fields are filled by the steps they belong to.
Ev(op, cmd, obs, result, error) ==
    [ op |-> op, cmd |-> cmd, obs |-> obs, result |-> result, error |-> error,
      req |-> NoReq, hdr |-> EmptyMap, hdrIn |-> EmptyMap, pre |-> callbacks,
      clean |-> FALSE, before |-> EmptyMap,
      push |-> NoPush, snapshot |-> EmptyMap, calls |-> NoCalls,
      cb |-> "", args |-> NoArgs, sendError |-> "", data |-> "json",
      stale |-> FALSE, joined |-> FALSE ]

\* No function called yet.
NoProbe == [fn |-> "", in |-> "", out |-> ""]

\* ----------------------------------------------------------------- sendRaw
\* A reserved-key test that lets every header map pass.
HasReservedHeaderNever(headers) == FALSE

\* sendRaw's reserved-key test.
HasReservedHeader(headers) == MapHas(headers, API_KEY)

\* A request id that is generated whatever the caller passed.
ReqIdAlwaysGenerated(headers) == GeneratedReqId

\* headers.get(X_REQ_ID) || this.getNextReqId()
ReqIdOr(headers) ==
    IF MapHas(headers, X_REQ_ID) /\ headers[X_REQ_ID] # ""
    THEN headers[X_REQ_ID] ELSE GeneratedReqId

\* The header map sendRaw hands to client.Send: a copy of the caller's with
\* the request id and the api path set.
WireHeader(headers, api) ==
    MapSet(MapSet(headers, X_REQ_ID, ReqIdOr(headers)), API_KEY, api)

\* The request send() hands to client.Send.
Request(api, cmdList, headers) ==
    [api |-> api, cmd |-> cmdList, header |-> WireHeader(headers, api)]

\* How an awaited send() can end.  On the wire: the transport answers with
\* a response (errMsg null or set), with an error, or with a text JSON.parse
\* rejects.  Off the wire: sendRaw refused the reserved key.
WireOutcomes == {"ok", "errMsg", "transportError", "invalidJson"}
AllOutcomes == WireOutcomes \cup {"reservedHeader"}
Outcomes(p) == IF p.onWire THEN WireOutcomes ELSE {"reservedHeader"}
\* send() throws what sendRaw or JSON.parse throws, and checks nothing of the
\* response it deserialized.
SendThrows(outcome) ==
    outcome \in {"transportError", "invalidJson", "reservedHeader"}

\* A pending send(): the operation awaiting it and what its continuation
\* reads (cb: the callback a subscribe registered).  The rest is history:
\* whether the registry was left alone since the call began (clean), the
\* registry as the call found it (before), whether a peer-closed event has
\* arrived since a resubscription attempt began (stale), and whether a
\* subscribe found its channel with an answered observer (joined).
Call(op, cmd, obs, onWire, clean, before) ==
    [ op |-> op, cmd |-> cmd, obs |-> obs, onWire |-> onWire,
      clean |-> clean, before |-> before, cb |-> "", stale |-> FALSE,
      joined |-> FALSE ]

\* Another operation changed the registry: no subscribe in flight is alone.
Disturbed(e) == [e EXCEPT !.clean = FALSE, !.before = EmptyMap]
Disturb(p) ==
    [x \in {Disturbed(e) : e \in DOMAIN p} |->
        SumCounts({e \in DOMAIN p : Disturbed(e) = x}, p)]

\* A peer-closed event arrived: the attempts in flight began before it.
Outdated(e) == IF e.op = "resubscribe" THEN [e EXCEPT !.stale = TRUE] ELSE e
MarkStale(p) ==
    [x \in {Outdated(e) : e \in DOMAIN p} |->
        SumCounts({e \in DOMAIN p : Outdated(e) = x}, p)]

\* Whether cmd has an observer whose subscribe is not in flight: its
\* Subscribe request has been answered.
Answered(cbs, pend, cmd) ==
    /\ MapHas(cbs, cmd)
    /\ \E o \in DOMAIN cbs[cmd] :
          ~\E p \in DOMAIN pend : p.op = "subscribe" /\ p.cmd = cmd /\ p.obs = o

\* Tasks that start whenever they are due, a dispatch under way or not.
AnyTime == TRUE

\* The macrotasks (answers, timers, transport events) wait for the running
\* synchronous code: none starts while onPush is invoking callbacks.
NotDispatching == ~disp.active

\* ---------------------------------------------------------------- registry
\* A duplicate test that finds no observer.
AlreadySubscribedNever(cbs, cmd, observer) == FALSE

\* cmdCallbacks?.has(observer)
AlreadySubscribed(cbs, cmd, observer) ==
    MapHas(cbs, cmd) /\ MapHas(cbs[cmd], observer)

\* A registration that waits for the server's answer.
AddObserverAfterAnswer(cbs, cmd, observer, callback) == cbs

\* if (!callbacks.has(cmd)) callbacks.set(cmd, new Map());
\* callbacks.get(cmd).set(observer, callback)
AddObserver(cbs, cmd, observer, callback) ==
    MapSet(cbs, cmd, MapSet(MapGetOr(cbs, cmd, EmptyMap), observer, callback))

\* A rollback that drops the channel with all its observers.
RollbackWholeChannel(cbs, cmd, observer) == MapDelete(cbs, cmd)

\* The catch block of subscribeInternal, given that callbacks.get(cmd) exists.
Rollback(cbs, cmd, observer) ==
    LET inner == MapDelete(cbs[cmd], observer)
    IN  IF MapSize(inner) = 0 THEN MapDelete(cbs, cmd)
        ELSE MapSet(cbs, cmd, inner)

\* A removal that keeps the channel entry of the last observer.
RemoveObserverKeepChannel(cbs, cmd, observer) ==
    MapSet(cbs, cmd, MapDelete(cbs[cmd], observer))

\* unsubscribeInternal's removal: delete the observer, and the channel entry
\* with it when no observer is left.
RemoveObserver(cbs, cmd, observer) ==
    LET inner == MapDelete(cbs[cmd], observer)
    IN  IF MapSize(inner) > 0 THEN MapSet(cbs, cmd, inner)
        ELSE MapDelete(cbs, cmd)

\* An observer test that finds every observer.
ObserverMissingNever(cbs, cmd, observer) == FALSE

\* unsubscribeInternal's second test: !cmdCallbacks.has(observer)
ObserverMissing(cbs, cmd, observer) == ~MapHas(cbs[cmd], observer)

\* An unsubscribe failure that puts an observer back.
RestoreObserver(cbs, cmd, observer) ==
    MapSet(cbs, cmd, MapSet(MapGetOr(cbs, cmd, EmptyMap), observer, "f"))

\* The registry after unsubscribeInternal's send threw: there is no catch
\* block, the registry stays as the removal left it.
AfterUnsubscribeFailure(cbs, cmd, observer) == cbs

\* An unsubscribe that goes to the server every time.
AlwaysServerCall(cbs, cmd, observer) == TRUE

\* Whether unsubscribeInternal goes on to the server: no observer is left.
RequiresServerCall(cbs, cmd, observer) ==
    MapSize(MapDelete(cbs[cmd], observer)) = 0

\* A channel list that names one channel only.
getSubscribedCommandsFirst(cbs) ==
    IF DOMAIN cbs = {} THEN {} ELSE {CHOOSE c \in DOMAIN cbs : TRUE}

\* getSubscribedCommands: Array.from(this.callbacks.keys())
getSubscribedCommands(cbs) == DOMAIN cbs

\* The arrays that list the elements of S once each.
ListsOf(S) ==
    {s \in [1..Cardinality(S) -> S] : {s[i] : i \in 1..Cardinality(S)} = S}

\* ------------------------------------------------------------- subscribe
\* A subscribe that asks the server for a channel's first observer only.
SendsSubscribeForNewChannel(cbs, cmd) == ~MapHas(cbs, cmd)

\* Whether subscribeInternal goes on to the server: it always does, no test
\* stands between the registration and the send.
SendsSubscribe(cbs, cmd) == TRUE

\* subscribe / subscribeInternal up to its await.
Subscribe(cmd, observer, callback, headers) ==
    /\ UNCHANGED auxVars
    /\ UNCHANGED <<recVars, pushVars>>
    /\ IF AlreadySubscribed(callbacks, cmd, observer)
       THEN /\ last' = [Ev("subscribe", cmd, observer, "threw", "DuplicateObserver")
                           EXCEPT !.hdr = headers, !.hdrIn = headers, !.cb = callback]
            /\ UNCHANGED <<callbacks, pending>>
       ELSE /\ BagSize(pending) < MaxPending
            /\ callbacks' = AddObserver(callbacks, cmd, observer, callback)
            /\ LET hdr == MapSet(headers, X_REQ_ID, ReqIdOr(headers))
                   onWire == ~HasReservedHeader(hdr) /\ SendsSubscribe(callbacks, cmd)
               IN  /\ pending' = BagAdd(Disturb(pending),
                           [Call("subscribe", cmd, observer, onWire, TRUE, callbacks)
                               EXCEPT !.cb = callback,
                                      !.joined = Answered(callbacks, pending, cmd)])
                   /\ last' = [Ev("subscribe", cmd, observer, "awaiting", "")
                           EXCEPT !.hdr = hdr, !.hdrIn = headers, !.cb = callback,
                                  !.req = IF onWire
                                          THEN Request("Subscribe", <<cmd>>, hdr)
                                          ELSE NoReq]

\* subscribeInternal from its await on: the response is returned, or the
\* catch block rolls back and rethrows.
SubscribeSettle(p, outcome) ==
    /\ UNCHANGED auxVars
    /\ NotDispatching
    /\ p \in DOMAIN pending
    /\ p.op = "subscribe"
    /\ outcome \in Outcomes(p)
    /\ UNCHANGED <<recVars, pushVars>>
    /\ LET rest == BagRemove(pending, p)
       IN  IF ~SendThrows(outcome)
           THEN /\ last' = [Ev("subscribeDone", p.cmd, p.obs, "returned", outcome)
                               EXCEPT !.cb = p.cb, !.joined = p.joined]
                /\ pending' = rest
                /\ UNCHANGED callbacks
           ELSE IF ~MapHas(callbacks, p.cmd)
           THEN \* callbacks.get(cmd)! is undefined: a TypeError leaves the catch block
                /\ last' = [Ev("subscribeDone", p.cmd, p.obs, "threw", "TypeError")
                        EXCEPT !.clean = p.clean, !.before = p.before,
                               !.sendError = outcome, !.cb = p.cb,
                               !.joined = p.joined]
                /\ pending' = rest
                /\ UNCHANGED callbacks
           ELSE /\ callbacks' = Rollback(callbacks, p.cmd, p.obs)
                /\ pending' = IF callbacks' = callbacks THEN rest ELSE Disturb(rest)
                /\ last' = [Ev("subscribeDone", p.cmd, p.obs, "threw", outcome)
                        EXCEPT !.clean = p.clean, !.before = p.before,
                               !.sendError = outcome, !.cb = p.cb,
                               !.joined = p.joined]

\* ----------------------------------------------------------- unsubscribe
\* unsubscribe / unsubscribeInternal up to its return or its await.
Unsubscribe(cmd, observer, headers) ==
    /\ UNCHANGED auxVars
    /\ UNCHANGED <<recVars, pushVars>>
    /\ IF ~MapHas(callbacks, cmd) \/ MapSize(callbacks[cmd]) = 0
       THEN /\ last' = [Ev("unsubscribe", cmd, observer, "threw", "NoSubscriptions")
                           EXCEPT !.hdr = headers, !.hdrIn = headers]
            /\ UNCHANGED <<callbacks, pending>>
       ELSE IF ObserverMissing(callbacks, cmd, observer)
       THEN /\ last' = [Ev("unsubscribe", cmd, observer, "threw", "ObserverNotFound")
                           EXCEPT !.hdr = headers, !.hdrIn = headers]
            /\ UNCHANGED <<callbacks, pending>>
       ELSE IF ~RequiresServerCall(callbacks, cmd, observer)
       THEN /\ callbacks' = RemoveObserver(callbacks, cmd, observer)
            /\ pending' = Disturb(pending)
            /\ last' = [Ev("unsubscribe", cmd, observer, "returned", "ok")
                           EXCEPT !.hdr = headers, !.hdrIn = headers]
       ELSE /\ BagSize(pending) < MaxPending
            /\ callbacks' = RemoveObserver(callbacks, cmd, observer)
            /\ LET hdr == MapSet(headers, X_REQ_ID, ReqIdOr(headers))
                   onWire == ~HasReservedHeader(hdr)
               IN  /\ pending' = BagAdd(Disturb(pending),
                           Call("unsubscribe", cmd, observer, onWire, TRUE, callbacks'))
                   /\ last' = [Ev("unsubscribe", cmd, observer, "awaiting", "")
                           EXCEPT !.hdr = hdr, !.hdrIn = headers,
                                  !.req = IF onWire
                                          THEN Request("Unsubscribe", <<cmd>>, hdr)
                                          ELSE NoReq]

\* unsubscribeInternal from its await on: return await this.send(...)
UnsubscribeSettle(p, outcome) ==
    /\ UNCHANGED auxVars
    /\ NotDispatching
    /\ p \in DOMAIN pending
    /\ p.op = "unsubscribe"
    /\ outcome \in Outcomes(p)
    /\ UNCHANGED <<recVars, pushVars>>
    /\ LET rest == BagRemove(pending, p)
       IN  IF ~SendThrows(outcome)
           THEN /\ last' = Ev("unsubscribeDone", p.cmd, p.obs, "returned", outcome)
                /\ pending' = rest
                /\ UNCHANGED callbacks
           ELSE /\ callbacks' = AfterUnsubscribeFailure(callbacks, p.cmd, p.obs)
                /\ pending' = IF callbacks' = callbacks THEN rest ELSE Disturb(rest)
                /\ last' = [Ev("unsubscribeDone", p.cmd, p.obs, "threw", outcome)
                        EXCEPT !.clean = p.clean, !.before = p.before,
                               !.sendError = outcome]

\* ------------------------------------------------- publish, ping, send
\* The calls that go to send() or sendRaw() and touch nothing else.
GenericOps == {"publish", "ping", "send", "sendRaw"}
GenericDone == {"publishDone", "pingDone", "sendDone", "sendRawDone"}
DoneOf(op) ==
    CASE op = "publish" -> "publishDone"
      [] op = "ping" -> "pingDone"
      [] op = "send" -> "sendDone"
      [] OTHER -> "sendRawDone"

\* An api path that is the Subscribe path for every call.
ApiOfAlwaysSubscribe(op) == "Subscribe"

\* The api path of a call: publish and ping name theirs, send and sendRaw
\* take the caller's.
ApiOf(op) ==
    CASE op = "publish" -> "Publish"
      [] op = "ping" -> "Ping"
      [] OTHER -> "Custom"

\* publish, ping, send and sendRaw up to the await of client.Send.  The
\* request names the channel of a publish; sendRaw works on a copy of the
\* caller's header map.
GenericCall(op, cmd, headers) ==
    /\ UNCHANGED auxVars
    /\ op \in GenericOps
    /\ BagSize(pending) < MaxPending
    /\ LET onWire == ~HasReservedHeader(headers)
       IN  /\ pending' = BagAdd(pending, Call(op, cmd, "", onWire, FALSE, EmptyMap))
           /\ last' = [Ev(op, cmd, "", "awaiting", "")
                          EXCEPT !.hdr = headers, !.hdrIn = headers,
                                 !.req = IF onWire
                                         THEN Request(ApiOf(op),
                                                 IF op = "publish" THEN <<cmd>> ELSE << >>,
                                                 headers)
                                         ELSE NoReq]
    /\ UNCHANGED <<callbacks, recVars, pushVars>>

\* send() with data JSON.stringify rejects (an object that refers to itself,
\* a BigInt): the TypeError ends the call before sendRaw is reached.
SendNotSerializable(headers) ==
    /\ UNCHANGED auxVars
    /\ last' = [Ev("send", "", "", "threw", "notSerializable")
                   EXCEPT !.hdr = headers, !.hdrIn = headers, !.data = "cyclic"]
    /\ UNCHANGED <<regVars, recVars, pushVars>>

\* The same calls from the await on: the response (the raw text, for
\* sendRaw, which parses nothing) is returned, or what was thrown goes on
\* to the caller.
GenericSettle(p, outcome) ==
    /\ UNCHANGED auxVars
    /\ NotDispatching
    /\ p \in DOMAIN pending
    /\ p.op \in GenericOps
    /\ outcome \in Outcomes(p)
    /\ p.op = "sendRaw" => outcome \notin {"errMsg", "invalidJson"}
    /\ pending' = BagRemove(pending, p)
    /\ last' = [Ev(DoneOf(p.op), p.cmd, "",
                   IF SendThrows(outcome) THEN "threw" ELSE "returned", outcome)
                   EXCEPT !.sendError = IF SendThrows(outcome) THEN outcome ELSE ""]
    /\ UNCHANGED <<callbacks, recVars, pushVars>>

\* ------------------------------------------------------------ Reconnecter
NoTimer == 0

\* The handle setTimeout returns: one no scheduled timer and no kept handle has.
FreshTimer == CHOOSE t \in 1..(MaxTimers + 1) :
                 /\ t \notin timers \cup {retryTimer}
                 /\ \A u \in 1..(t - 1) : u \in timers \cup {retryTimer}

\* clearTimeout(h): a handle that fired or was cleared clears nothing.
ClearTimeout(ts, h) == ts \ {h}

\* Reconnecter.do up to its await: op names the caller (start, or the timer).
Do(op) ==
    IF ~isActive
    THEN /\ last' = Ev(op, "", "", "returned", "inactive")
         /\ UNCHANGED pending
    ELSE IF getSubscribedCommands(callbacks) = {}
    THEN /\ last' = Ev(op, "", "", "returned", "nothingToRestore")
         /\ UNCHANGED pending
    ELSE /\ BagSize(pending) < MaxPending
         /\ \E cmdsToResubscribe \in ListsOf(getSubscribedCommands(callbacks)) :
              last' = [Ev(op, "", "", "awaiting", "")
                         EXCEPT !.req = Request("Subscribe", cmdsToResubscribe,
                                                EmptyMap)]
         /\ pending' = BagAdd(pending,
                              Call("resubscribe", "", "", TRUE, FALSE, EmptyMap))

\* The transport reports the connection lost: onPeerClosed up to its await
\* of client.Recover().
PeerClosed ==
    /\ UNCHANGED auxVars
    /\ NotDispatching
    /\ recovering < MaxRecover
    /\ recovering' = recovering + 1
    /\ pending' = MarkStale(pending)
    /\ last' = Ev("peerClosed", "", "", "awaiting", "")
    /\ UNCHANGED <<callbacks, isActive, retryTimer, timers, pushVars>>

\* A handler that starts the coordinator although Recover() rejected.
RecoverFailedStartsAnyway == Do("peerClosedDone")

\* Recover() rejected: so does the handler, at its await; start() is not
\* reached.
RecoverFailed ==
    /\ last' = Ev("peerClosedDone", "", "", "threw", "recoverError")
    /\ UNCHANGED pending

\* onPeerClosed from its await on: Recover() rejected and so does the
\* handler, or reconnecter.start() runs.
RecoverDone(ok) ==
    /\ UNCHANGED auxVars
    /\ NotDispatching
    /\ recovering > 0
    /\ recovering' = recovering - 1
    /\ UNCHANGED <<callbacks, isActive, retryTimer, timers, pushVars>>
    /\ IF ok THEN Do("start") ELSE RecoverFailed

\* A catch block that schedules a retry whatever isActive is.
SchedulesRetryAlways(active) == TRUE
\* A catch block that schedules no retry.
SchedulesRetryNever(active) == FALSE

\* The catch block of Reconnecter.do: if (this.isActive) { setTimeout(...) }
SchedulesRetry(active) == active

\* A coordinator that drops the registry when an attempt fails.
RegistryDroppedOnFailure(cbs, outcome) ==
    IF SendThrows(outcome) THEN EmptyMap ELSE cbs

\* The registry after an attempt of Reconnecter.do: it reads the channel
\* list and writes nothing.
RegistryAfterAttempt(cbs, outcome) == cbs

\* Reconnecter.do from its await on.
ResubscribeSettle(p, outcome) ==
    /\ UNCHANGED auxVars
    /\ NotDispatching
    /\ p \in DOMAIN pending
    /\ p.op = "resubscribe"
    /\ outcome \in Outcomes(p)
    /\ pending' = BagRemove(pending, p)
    /\ callbacks' = RegistryAfterAttempt(callbacks, outcome)
    /\ UNCHANGED <<isActive, recovering, pushVars>>
    /\ IF ~SendThrows(outcome)
       THEN /\ timers' = IF retryTimer # NoTimer
                         THEN ClearTimeout(timers, retryTimer) ELSE timers
            /\ retryTimer' = NoTimer
            /\ last' = [Ev("resubscribeDone", "", "", "returned", outcome)
                           EXCEPT !.stale = p.stale]
       ELSE IF SchedulesRetry(isActive)
       THEN /\ Cardinality(timers) < MaxTimers
            /\ retryTimer' = FreshTimer
            /\ timers' = timers \cup {FreshTimer}
            /\ last' = [Ev("resubscribeDone", "", "", "retryScheduled", outcome)
                           EXCEPT !.stale = p.stale]
       ELSE /\ UNCHANGED <<retryTimer, timers>>
            /\ last' = [Ev("resubscribeDone", "", "", "gaveUp", outcome)
                           EXCEPT !.stale = p.stale]

\* A retry timer fires: () => { this.do() }
TimerFire(t) ==
    /\ UNCHANGED auxVars
    /\ NotDispatching
    /\ t \in timers
    /\ timers' = timers \ {t}
    /\ UNCHANGED <<callbacks, isActive, retryTimer, recovering, pushVars>>
    /\ Do("timer")

\* ---------------------------------------------------------------- destroy
\* A destroy that leaves the registry alone.
RegistryKeptOnDestroy(cbs) == cbs

\* callbacks.clear()
RegistryAfterDestroy(cbs) == EmptyMap

\* destroy: reconnecter.stop(), then callbacks.clear()
Destroy ==
    /\ UNCHANGED auxVars
    /\ isActive' = FALSE
    /\ timers' = IF retryTimer # NoTimer
                 THEN ClearTimeout(timers, retryTimer) ELSE timers
    /\ retryTimer' = NoTimer
    /\ callbacks' = RegistryAfterDestroy(callbacks)
    /\ pending' = IF callbacks' = callbacks THEN pending ELSE Disturb(pending)
    /\ last' = Ev("destroy", "", "", "returned", "")
    /\ UNCHANGED <<recovering, pushVars>>

\* ------------------------------------------------------------------ onPush
\* JavaScript values: those JSON gives a push's header entries, and
\* undefined.
JStr(s) == [t |-> "string", s |-> s]
JNull == [t |-> "null", s |-> ""]
JUndefined == [t |-> "undefined", s |-> ""]
JNum(n) == [t |-> "number", n |-> n]
JBool(b) == [t |-> "boolean", b |-> b]
\* An object, e its own enumerable entries.
JObj(e) == [t |-> "object", e |-> e]

\* !v
Falsy(v) ==
    \/ v.t \in {"null", "undefined"}
    \/ v.t = "string" /\ v.s = ""
    \/ v.t = "number" /\ v.n = 0
    \/ v.t = "boolean" /\ ~v.b
\* typeof v
TypeOf(v) == IF v.t = "null" THEN "object" ELSE v.t
\* String(v)
JsString(v) ==
    CASE v.t = "string" -> v.s
      [] v.t = "number" -> ToString(v.n)
      [] v.t = "boolean" -> (IF v.b THEN "true" ELSE "false")
      [] v.t = "null" -> "null"
      [] v.t = "undefined" -> "undefined"
      [] OTHER -> "[object Object]"

\* A test that also drops the empty string, 0 and false.
NullishOrFalsy(v) == Falsy(v)

\* value == null
Nullish(v) == v.t \in {"null", "undefined"}

\* What JSON.parse makes of the raw text: nothing (it throws), null, a
\* number, or an object with the fields named in has.
RawPush(kind, has, cmd, data, header) ==
    [kind |-> kind, has |-> has, cmd |-> cmd, data |-> data, header |-> header]
ReqIdHeader == [k \in {X_REQ_ID} |-> JStr("p1")]
NullEntryHeader ==
    [k \in {X_REQ_ID, "X-Gone"} |-> IF k = X_REQ_ID THEN JStr("p2") ELSE JNull]
PushInputs ==
    { RawPush("invalidJson", {}, "", "", EmptyMap),
      RawPush("null", {}, "", "", EmptyMap),
      RawPush("number", {}, "", "", EmptyMap),
      RawPush("object", {"data"}, "", "d", EmptyMap),
      RawPush("object", {"cmd"}, "a", "", EmptyMap),
      RawPush("object", {"cmd", "data"}, "a", "", EmptyMap),
      RawPush("object", {"cmd", "data"}, "a", "d", EmptyMap),
      RawPush("object", {"cmd", "data", "header"}, "a", "d", NullEntryHeader) }
    \cup { RawPush("object", {"cmd", "data", "header"}, c, "d", ReqIdHeader) :
              c \in Cmds \cup {"zz"} }

\* plainToClass(OnPushMessage, jsonData) of an object: the class's defaults
\* ("" and {}) under the fields the object has.
PlainToClass(raw) ==
    [ cmd |-> IF "cmd" \in raw.has THEN raw.cmd ELSE "",
      data |-> IF "data" \in raw.has THEN raw.data ELSE "",
      header |-> IF "header" \in raw.has THEN raw.header ELSE EmptyMap ]

\* A header conversion that forwards nothing.
getHeaderMapEmpty(header) == EmptyMap

\* getHeaderMap: nothing for a header that is falsy or no object; else an
\* entry per own key whose value is neither null nor undefined, as strings.
getHeaderMap(header) ==
    IF Falsy(header) THEN EmptyMap
    ELSE IF TypeOf(header) # "object" THEN EmptyMap
    ELSE [k \in {x \in DOMAIN header.e : ~Nullish(header.e[x])} |->
             JsString(header.e[k])]

\* A validation that asks for a cmd only.
ValidateCmdOnly(raw) ==
    CASE raw.kind = "invalidJson" -> "parseFailed"
      [] raw.kind = "null" -> "TypeError"
      [] raw.kind = "number" -> "invalidFormat"
      [] OTHER -> IF PlainToClass(raw).cmd = "" THEN "invalidFormat" ELSE "valid"

\* onPush up to its lookup of the observers: how the raw push fares.
\*   parseFailed    JSON.parse threw, caught: log and return
\*   TypeError      pushData is null, reading pushData.cmd throws
\*   invalidFormat  !pushData.cmd || !pushData.data: log and return
Validate(raw) ==
    CASE raw.kind = "invalidJson" -> "parseFailed"
      [] raw.kind = "null" -> "TypeError"
      [] raw.kind = "number" -> "invalidFormat"
      [] OTHER -> IF PlainToClass(raw).cmd = "" \/ PlainToClass(raw).data = ""
                  THEN "invalidFormat" ELSE "valid"

\* !cmdCallbacks || cmdCallbacks.size === 0
NoObservers(cbs, cmd) == ~MapHas(cbs, cmd) \/ MapSize(cbs[cmd]) = 0

\* An onPush that throws when no observer is found.
EndByThrowing == "rejected"

\* How onPush ends when no observer is found: it warns and returns.
EndOfNoObservers == "fulfilled"

NoDispatch ==
    [ active |-> FALSE, push |-> NoPush, args |-> NoArgs, snapshot |-> EmptyMap,
      todo |-> {}, calls |-> NoCalls, threw |-> FALSE ]

\* What a callback does when called: it returns, it throws, or it returns
\* a promise (an async function), which settles later.
CallbackBehaviours == {"returns", "throws", "promise"}

\* A dispatch loop that a throwing callback ends.
RemainingAfterAbort(todo, observer, how) ==
    IF how = "throws" THEN {} ELSE todo \ {observer}

\* The observers still to be called after observer's callback ended as how:
\* each call sits in its own try/catch.
RemainingAfter(todo, observer, how) == todo \ {observer}

\* An iteration over the live observer Map: who is gone is not called.
ToCallLive(todo, now) == todo \cap DOMAIN now

\* The observers still to be called: Array.from(cmdCallbacks.entries()) is
\* made when the dispatch starts, what the registry holds now changes nothing.
ToCall(todo, now) == todo

\* Callers run between tasks, or inside a callback that onPush has called.
CallerMayRun == ~disp.active \/ disp.todo # DOMAIN disp.snapshot

\* The transport delivers a push: onPush up to its first callback
\* (dispatching), or to its end when it has none to call.
PushArrive(raw) ==
    /\ UNCHANGED auxVars
    /\ NotDispatching
    /\ asyncOut' = [cur |-> 0, old |-> asyncOut.old + asyncOut.cur]
    /\ UNCHANGED <<regVars, recVars>>
    /\ LET v == Validate(raw)
           pushData == PlainToClass(raw)
       IN  IF v = "TypeError"
           THEN /\ last' = [Ev("push", "", "", "rejected", v) EXCEPT !.push = raw]
                /\ UNCHANGED disp
           ELSE IF v # "valid"
           THEN /\ last' = [Ev("push", "", "", "fulfilled", v) EXCEPT !.push = raw]
                /\ UNCHANGED disp
           ELSE IF NoObservers(callbacks, pushData.cmd)
           THEN /\ last' = [Ev("push", pushData.cmd, "", EndOfNoObservers, "noObservers")
                               EXCEPT !.push = raw]
                /\ UNCHANGED disp
           ELSE /\ disp' = [ active |-> TRUE, push |-> raw,
                             args |-> [ cmd |-> pushData.cmd, data |-> pushData.data,
                                        header |-> getHeaderMap(JObj(pushData.header)) ],
                             snapshot |-> callbacks[pushData.cmd],
                             todo |-> DOMAIN callbacks[pushData.cmd],
                             calls |-> NoCalls, threw |-> FALSE ]
                /\ last' = [Ev("push", pushData.cmd, "", "dispatching", "")
                               EXCEPT !.push = raw,
                                      !.snapshot = callbacks[pushData.cmd]]

\* onPush calls one observer's callback inside the wrapper's try/catch.
InvokeCallback(observer, how) ==
    /\ UNCHANGED auxVars
    /\ disp.active
    /\ observer \in ToCall(disp.todo, MapGetOr(callbacks, disp.args.cmd, EmptyMap))
    /\ how \in CallbackBehaviours
    /\ IF how = "promise"
       THEN /\ asyncOut.cur + asyncOut.old < MaxAsync
            /\ asyncOut' = [asyncOut EXCEPT !.cur = @ + 1]
       ELSE UNCHANGED asyncOut
    /\ disp' = [disp EXCEPT !.todo = RemainingAfter(disp.todo, observer, how),
                            !.calls[observer] = @ + 1,
                            !.threw = @ \/ how = "throws"]
    /\ last' = [Ev("callback", disp.args.cmd, observer, how,
                   IF how = "throws" THEN "caught" ELSE "")
                   EXCEPT !.cb = disp.snapshot[observer], !.args = disp.args,
                          !.push = disp.push]
    /\ UNCHANGED <<regVars, recVars>>

\* await Promise.allSettled(callbackPromises): every wrapper has ended, none
\* of them rejected; onPush ends.
PushComplete ==
    /\ UNCHANGED auxVars
    /\ disp.active
    /\ ToCall(disp.todo, MapGetOr(callbacks, disp.args.cmd, EmptyMap)) = {}
    /\ last' = [Ev("pushEnd", disp.args.cmd, "", "fulfilled",
                   IF disp.threw THEN "callbackThrew" ELSE "")
                   EXCEPT !.push = disp.push, !.snapshot = disp.snapshot,
                          !.calls = disp.calls]
    /\ disp' = NoDispatch
    /\ UNCHANGED <<regVars, recVars, asyncOut>>

\* A promise a callback returned settles.  Nothing holds it: onPush dropped
\* it, so a rejection is an unhandled one.
AsyncSettle(which, outcome) ==
    /\ UNCHANGED auxVars
    /\ ~disp.active \/ disp.todo = {}
    /\ which \in {"cur", "old"}
    /\ asyncOut[which] > 0
    /\ asyncOut' = [asyncOut EXCEPT ![which] = @ - 1]
    /\ last' = Ev("callbackSettled", "", "", 
                  IF outcome = "rejected" THEN "unhandledRejection" ELSE "fulfilled",
                  which)
    /\ UNCHANGED <<regVars, recVars, disp>>

\* ------------------------------------------------------------ getNextReqId
\* The modulus of the sequence counter all clients share.
SeqModulus == 100000000

\* n.toString() of a number that is a natural: its decimal digits.
RECURSIVE ToDigits(_)
ToDigits(n) == IF n < 10 THEN <<n>> ELSE Append(ToDigits(n \div 10), n % 10)
\* s.padStart(width, fill)
PadStart(s, width, fill) ==
    IF Len(s) >= width THEN s ELSE [i \in 1..(width - Len(s)) |-> fill] \o s
\* s.substring(from, to), for 0 <= from <= to
Substring(s, from, to) ==
    SubSeq(s, (IF from > Len(s) THEN Len(s) ELSE from) + 1,
              IF to > Len(s) THEN Len(s) ELSE to)

\* A counter that never wraps.
NextSeqNoWrap(g) == g + 1

\* (GatewayClient.globalSeqId + 1) % 100000000
NextSeq(g) == (g + 1) % SeqModulus

\* Client identifiers are strings, here sequences of UTF-16 code units.
DefaultClientId == <<"0", "0", "0", "0">>
ClientIds == {DefaultClientId, <<"a", "b", "c", "d">>}
\* Values the shared counter may have when a run of calls begins.
SeqStarts == {0, 9998, 9999, SeqModulus - 3, SeqModulus - 2, SeqModulus - 1}

\* getNextReqId of the client with this identifier.  The identifier's random
\* prefix and its timestamp are read from the environment and not kept.
GetNextReqId(clientId) ==
    /\ Len(issued) < MaxIds
    /\ globalSeqId' = NextSeq(globalSeqId)
    /\ LET seqDecimal == PadStart(ToDigits(globalSeqId'), 8, 0)
       IN  issued' = Append(issued, [ clientId |-> clientId,
                                      seq      |-> globalSeqId',
                                      seqHigh  |-> Substring(seqDecimal, 0, 4),
                                      seqLow   |-> Substring(seqDecimal, 4, 8) ])
    /\ UNCHANGED <<regVars, recVars, pushVars, last, probe>>

\* ------------------------------------------------------------- constructor
\* The longest identifier passed to the constructor.
MaxClientIdLen == 5
ClientIdChars == {"0", "a"}
ClientIdInputs ==
    UNION { [1..n -> ClientIdChars] : n \in 0..MaxClientIdLen }

\* A test that accepts every identifier of at most four code units.
ValidClientIdUpTo4(id) == Len(id) <= 4

\* !(clientId.length !== 4)
ValidClientId(id) == Len(id) = 4

\* The two hooks the constructor installs on the transport client.
Hooks == {"onPush", "onPeerClosed"}

\* new GatewayClient(client, clientId): clientId defaults to '0000' when it
\* is not given; the length test throws before any hook is installed.
Constructor(given, clientId) ==
    LET id == IF given THEN clientId ELSE DefaultClientId
    IN  IF ~ValidClientId(id)
        THEN [result |-> "threw", clientId |-> << >>, hooks |-> {}]
        ELSE [result |-> "constructed", clientId |-> id, hooks |-> Hooks]

Construct(given, clientId) ==
    /\ probe' = [ fn  |-> "constructor",
                  in  |-> [given |-> given, clientId |-> clientId],
                  out |-> Constructor(given, clientId) ]
    /\ UNCHANGED <<regVars, recVars, pushVars, last, globalSeqId, issued>>

\* ------------------------------------------------------------ getHeaderMap
HeaderKeys == {X_REQ_ID, "k"}
EntryValues == { JStr("v"), JStr(""), JNum(0), JNum(42), JBool(FALSE),
                 JNull, JUndefined, JObj(EmptyMap) }
\* What a caller may pass: objects over HeaderKeys, and values that are none.
HeaderArgs ==
    { JNull, JUndefined, JNum(0), JNum(5), JStr(""), JStr("abc"),
      JBool(TRUE), JBool(FALSE) }
    \cup { JObj(e) : e \in UNION { [K -> EntryValues] : K \in SUBSET HeaderKeys } }

HeaderMapCall(header) ==
    /\ probe' = [ fn |-> "getHeaderMap", in |-> header,
                  out |-> getHeaderMap(header) ]
    /\ UNCHANGED <<regVars, recVars, pushVars, last, globalSeqId, issued>>

\* ------------------------------------------------------------------- specs
\* A client just constructed, whatever the shared counter.
ClientAtRest ==
    /\ callbacks = EmptyMap
    /\ pending = EmptyBag
    /\ isActive = TRUE
    /\ retryTimer = NoTimer
    /\ timers = {}
    /\ recovering = 0
    /\ disp = NoDispatch
    /\ asyncOut = [cur |-> 0, old |-> 0]
    /\ last = Ev("constructor", "", "", "returned", "")
    /\ issued = << >>
    /\ probe = NoProbe

\* The state after the first client of the process is constructed.
Init == ClientAtRest /\ globalSeqId = 0

\* The registry's operations, with every header map a caller may pass.
SubscribeCall ==
    \E s \in SubscribeInputs, h \in HeaderInputs :
        CallerMayRun /\ Subscribe(s[1], s[2], s[3], h)
UnsubscribeCall ==
    \E c \in Cmds, o \in Observers, h \in HeaderInputs :
        CallerMayRun /\ Unsubscribe(c, o, h)
DestroyCall == CallerMayRun /\ Destroy
SubscribeAnswer == \E p \in DOMAIN pending, r \in AllOutcomes : SubscribeSettle(p, r)
UnsubscribeAnswer == \E p \in DOMAIN pending, r \in AllOutcomes : UnsubscribeSettle(p, r)

NextRegistry ==
    \/ SubscribeCall
    \/ UnsubscribeCall
    \/ DestroyCall
    \/ SubscribeAnswer
    \/ UnsubscribeAnswer

SpecRegistry == Init /\ [][NextRegistry]_vars

\* The same operations with no header map passed.
SubscribePlain ==
    \E s \in SubscribeInputs :
        CallerMayRun /\ Subscribe(s[1], s[2], s[3], NoHeaders)
UnsubscribePlain ==
    \E c \in Cmds, o \in Observers : CallerMayRun /\ Unsubscribe(c, o, NoHeaders)
\* And those of a caller that awaits each call before it makes the next.
SubscribeAwaited == pending = EmptyBag /\ SubscribePlain
UnsubscribeAwaited == pending = EmptyBag /\ UnsubscribePlain
\* The transport answers or fails; the text it answers with is a response.
PlainOutcomes == {"ok", "transportError"}
SubscribeAnswerPlain ==
    \E p \in DOMAIN pending, r \in PlainOutcomes : SubscribeSettle(p, r)
UnsubscribeAnswerPlain ==
    \E p \in DOMAIN pending, r \in PlainOutcomes : UnsubscribeSettle(p, r)

PushDelivery == \E raw \in PushInputs : PushArrive(raw)
CallbackCall ==
    \E o \in Observers, how \in CallbackBehaviours : InvokeCallback(o, how)
PromiseSettles ==
    \E which \in {"cur", "old"}, r \in {"fulfilled", "rejected"} :
        AsyncSettle(which, r)
RecoverAnswer == \E ok \in BOOLEAN : RecoverDone(ok)
ResubscribeAnswer ==
    \E p \in DOMAIN pending, r \in PlainOutcomes : ResubscribeSettle(p, r)
TimerFires == \E t \in timers : TimerFire(t)

\* The registry's operations of callers that do not await, on a transport
\* that answers each request or fails it, the connection never lost.
NextShared ==
    \/ SubscribePlain
    \/ UnsubscribePlain
    \/ DestroyCall
    \/ SubscribeAnswerPlain
    \/ UnsubscribeAnswerPlain

SpecShared == Init /\ [][NextShared]_vars

\* The push dispatcher beside the registry's operations.
NextPush ==
    \/ SubscribeAwaited
    \/ UnsubscribeAwaited
    \/ DestroyCall
    \/ SubscribeAnswerPlain
    \/ UnsubscribeAnswerPlain
    \/ PushDelivery
    \/ CallbackCall
    \/ PushComplete
    \/ PromiseSettles

SpecPush == Init /\ [][NextPush]_vars

\* Every handler of the client, the callbacks synchronous, on the pushes
\* that tell the dispatcher's paths apart.
FewPushes ==
    { raw \in PushInputs :
        raw.kind = "object" /\ raw.header = ReqIdHeader /\ raw.cmd \in Cmds }
PushDeliveryFew == \E raw \in FewPushes : PushArrive(raw)
CallbackCallSync ==
    \E o \in Observers : InvokeCallback(o, "returns")

\* One callback an observer.
FewSubscribes == {s \in SubscribeInputs : s # <<"a", "o1", "f">>}
SubscribeFew ==
    \E s \in FewSubscribes :
        CallerMayRun /\ Subscribe(s[1], s[2], s[3], NoHeaders)

UnsubscribeFew ==
    \E s \in FewSubscribes : CallerMayRun /\ Unsubscribe(s[1], s[2], NoHeaders)

Next ==
    \/ SubscribeFew
    \/ UnsubscribeFew
    \/ DestroyCall
    \/ SubscribeAnswerPlain
    \/ UnsubscribeAnswerPlain
    \/ PushDeliveryFew
    \/ CallbackCallSync
    \/ PushComplete
    \/ PeerClosed
    \/ RecoverAnswer
    \/ ResubscribeAnswer
    \/ TimerFires

Spec == Init /\ [][Next]_vars

\* The resubscription coordinator on peer-closed events that come one at a
\* time: none arrives while the recovery, an attempt or a retry delay of the
\* event before it is still under way.  The caller awaits each call.
ResubscribePending == {p \in DOMAIN pending : p.op = "resubscribe"}
ChainQuiet == timers = {} /\ recovering = 0 /\ ResubscribePending = {}
CallerIdle == DOMAIN pending \subseteq ResubscribePending
PeerClosedQuiet == ChainQuiet /\ PeerClosed
SubscribeIdle == CallerIdle /\ SubscribePlain
UnsubscribeIdle == CallerIdle /\ UnsubscribePlain
ResubscribeOk == \E p \in DOMAIN pending : ResubscribeSettle(p, "ok")

NextReconnect ==
    \/ SubscribeIdle
    \/ UnsubscribeIdle
    \/ DestroyCall
    \/ SubscribeAnswerPlain
    \/ UnsubscribeAnswerPlain
    \/ PeerClosedQuiet
    \/ RecoverAnswer
    \/ ResubscribeAnswer
    \/ TimerFires

SpecReconnect == Init /\ [][NextReconnect]_vars

\* Every call that sends, with the header maps a caller may pass (an empty
\* request id among them), beside the resubscription coordinator.
CallHeaderInputs == HeaderInputs \cup { [k \in {X_REQ_ID} |-> ""] }
SubscribeWithHeaders ==
    \E s \in SubscribeInputs, h \in CallHeaderInputs :
        CallerIdle /\ Subscribe(s[1], s[2], s[3], h)
UnsubscribeWithHeaders ==
    \E c \in Cmds, o \in Observers, h \in CallHeaderInputs :
        CallerIdle /\ Unsubscribe(c, o, h)
GenericWithHeaders ==
    \E op \in GenericOps, h \in CallHeaderInputs :
        CallerIdle /\ GenericCall(op, IF op = "publish" THEN "a" ELSE "", h)
SendNotSerializableCall ==
    \E h \in CallHeaderInputs : CallerIdle /\ SendNotSerializable(h)
GenericAnswer == \E p \in DOMAIN pending, r \in AllOutcomes : GenericSettle(p, r)

NextCalls ==
    \/ SubscribeWithHeaders
    \/ UnsubscribeWithHeaders
    \/ GenericWithHeaders
    \/ SendNotSerializableCall
    \/ DestroyCall
    \/ SubscribeAnswer
    \/ UnsubscribeAnswer
    \/ GenericAnswer
    \/ PeerClosedQuiet
    \/ RecoverAnswer
    \/ ResubscribeAnswer
    \/ TimerFires

SpecCalls == Init /\ [][NextCalls]_vars

\* Clients of one process asking for request identifiers, from any value the
\* shared counter has reached.
InitReqId == ClientAtRest /\ globalSeqId \in SeqStarts
NextReqId == \E c \in ClientIds : GetNextReqId(c)
SpecReqId == InitReqId /\ [][NextReqId]_vars

\* The constructor and getHeaderMap, on every input of the bounded sets.
ConstructCall ==
    \/ \E id \in ClientIdInputs : Construct(TRUE, id)
    \/ Construct(FALSE, << >>)
HeaderMapCalls == \E h \in HeaderArgs : HeaderMapCall(h)
NextFunctions == ConstructCall \/ HeaderMapCalls
SpecFunctions == Init /\ [][NextFunctions]_vars

\* The same with the scheduling the runtime gives: a timer that is due
\* fires, the transport settles every Send, and a transport that accepts
\* sends again and again at last accepts the one in flight.
SpecReconnectFair ==
    /\ Init /\ [][NextReconnect]_vars
    /\ WF_vars(TimerFires)
    /\ WF_vars(ResubscribeAnswer)
    /\ SF_vars(ResubscribeOk)

\* ------------------------------------------------------------------ claims
\* Whether observer is registered under cmd in the registry reg.
Registered(reg, cmd, observer) == cmd \in DOMAIN reg /\ observer \in DOMAIN reg[cmd]

\* C1: a subscribe(c, o, ...) made while o is registered under c, its first
\* subscribe answered or not, throws the duplicate error, leaves the registry
\* exactly as it was and hands no request to the transport.
C1_DuplicateSubscribeRejected ==
    (last.op = "subscribe" /\ Registered(last.pre, last.cmd, last.obs))
        => /\ last.result = "threw"
           /\ last.error = "DuplicateObserver"
           /\ callbacks = last.pre
           /\ last.req = NoReq

\* C1's case: o1 subscribes to a again, with another callback, while its
\* first subscribe still awaits the server.
C1_Witness ==
    /\ last.op = "subscribe" /\ last.cmd = "a" /\ last.obs = "o1"
    /\ last.error = "DuplicateObserver"
    /\ last.cb # callbacks["a"]["o1"]
    /\ \E p \in DOMAIN pending : p.op = "subscribe" /\ p.cmd = "a" /\ p.obs = "o1"

\* C2: when a subscribe(c, o, ...) of an o not registered under c fails with
\* its send, and nothing else touched the registry while it was in flight,
\* the registry is again what the call found: o is not under c, the other
\* observers of c are kept, c has no entry if it had none, and the duplicate
\* test no longer finds o.
C2_FailedSubscribeRolledBack ==
    (last.op = "subscribeDone" /\ last.result = "threw" /\ last.clean)
        => /\ callbacks = last.before
           /\ ~Registered(callbacks, last.cmd, last.obs)
           /\ ~AlreadySubscribed(callbacks, last.cmd, last.obs)
           /\ last.error # "TypeError"

\* C2's case: the transport fails the Subscribe of a second observer of a
\* channel, and the first observer is still there.
C2_Witness ==
    /\ last.op = "subscribeDone" /\ last.result = "threw" /\ last.clean
    /\ last.error = "transportError"
    /\ last.cmd \in DOMAIN last.before
    /\ callbacks = last.before

\* C3 as stated: unsubscribing an observer that is not the last of its
\* channel removes that observer only, sends nothing and returns a success
\* response; unsubscribing the last one removes the channel entry and sends
\* one Unsubscribe request with cmd [c].
C3_AsStated ==
    (last.op = "unsubscribe" /\ Registered(last.pre, last.cmd, last.obs))
        => IF MapSize(last.pre[last.cmd]) > 1
           THEN /\ callbacks =
                     MapSet(last.pre, last.cmd, MapDelete(last.pre[last.cmd], last.obs))
                /\ last.req = NoReq
                /\ last.result = "returned" /\ last.error = "ok"
           ELSE /\ callbacks = MapDelete(last.pre, last.cmd)
                /\ last.req.api = "Unsubscribe"
                /\ last.req.cmd = <<last.cmd>>

\* C3: as above, except that the last observer's unsubscribe sends its one
\* Unsubscribe request with cmd [c] only when the caller's header map lacks
\* the reserved key api; with that key the observer and the channel entry
\* are removed all the same and no request is sent.
C3_UnsubscribeReferenceCounted ==
    (last.op = "unsubscribe" /\ Registered(last.pre, last.cmd, last.obs))
        => IF MapSize(last.pre[last.cmd]) > 1
           THEN /\ callbacks =
                     MapSet(last.pre, last.cmd, MapDelete(last.pre[last.cmd], last.obs))
                /\ last.req = NoReq
                /\ last.result = "returned" /\ last.error = "ok"
           ELSE /\ callbacks = MapDelete(last.pre, last.cmd)
                /\ IF API_KEY \in DOMAIN last.hdr
                   THEN last.req = NoReq
                   ELSE /\ last.req.api = "Unsubscribe"
                        /\ last.req.cmd = <<last.cmd>>
                        /\ last.req.header[API_KEY] = "Unsubscribe"

\* C3's case: the last observer of a leaves while b keeps its own, and the
\* one Unsubscribe request for a goes out.
C3_Witness ==
    /\ last.op = "unsubscribe" /\ last.cmd = "a"
    /\ Registered(last.pre, "a", last.obs)
    /\ MapSize(last.pre["a"]) = 1
    /\ last.req.api = "Unsubscribe" /\ last.req.cmd = <<"a">>
    /\ DOMAIN callbacks = {"b"}

\* C4: at every await and between operations, whatever the interleaving of
\* subscribe, unsubscribe, destroy, rollback, push dispatch and reconnect
\* steps, no channel key of the registry maps to an empty observer set.
C4_NoEmptyChannel ==
    \A c \in DOMAIN callbacks : MapSize(callbacks[c]) >= 1

\* C4's case: a rollback has just taken the only observer of a channel, and
\* the channel entry with it, while a resubscription is in flight.
C4_Witness ==
    /\ last.op = "subscribeDone" /\ last.result = "threw"
    /\ last.cmd \in DOMAIN last.pre
    /\ last.cmd \notin DOMAIN callbacks
    /\ \E p \in DOMAIN pending : p.op = "resubscribe"

\* A push the dispatcher accepts: an object with a cmd and a data.
WellFormed(raw) ==
    /\ raw.kind = "object"
    /\ {"cmd", "data"} \subseteq raw.has
    /\ raw.cmd # "" /\ raw.data # ""

\* C5: for a well-formed push for c, the observers called are those
\* registered under c when the dispatch starts, once each and no other, each
\* with the callback it had then, the push's cmd, its data and a header map
\* holding the push's header entries, X-Req-Id among them.
C5_PushFanOut ==
    /\ (last.op = "push" /\ WellFormed(last.push) /\ last.push.cmd \in DOMAIN last.pre)
          => /\ last.result = "dispatching"
             /\ disp.active
             /\ disp.snapshot = last.pre[last.push.cmd]
    /\ disp.active
          => \A o \in Observers :
                /\ disp.calls[o] <= 1
                /\ o \notin DOMAIN disp.snapshot => disp.calls[o] = 0
    /\ last.op = "callback"
          => /\ last.obs \in DOMAIN disp.snapshot
             /\ last.cb = disp.snapshot[last.obs]
             /\ last.args.cmd = last.push.cmd
             /\ last.args.data = last.push.data
             /\ \A k \in DOMAIN last.push.header :
                   last.push.header[k].t = "string"
                      => /\ k \in DOMAIN last.args.header
                         /\ last.args.header[k] = last.push.header[k].s
    /\ last.op = "pushEnd"
          => \A o \in Observers :
                last.calls[o] = IF o \in DOMAIN last.snapshot THEN 1 ELSE 0

\* C5's case: a push for a with its X-Req-Id has been dispatched to o2, the
\* observer of a, and not to o1, which observes b only.
C5_Witness ==
    /\ last.op = "pushEnd" /\ last.cmd = "a"
    /\ X_REQ_ID \in DOMAIN last.push.header
    /\ DOMAIN last.snapshot = {"o2"}
    /\ last.calls["o2"] = 1 /\ last.calls["o1"] = 0
    /\ Registered(callbacks, "b", "o1") /\ ~Registered(callbacks, "a", "o1")

\* C6: when callbacks of a push throw, every observer of the channel is
\* still called, onPush ends without throwing, and a throwing callback
\* leaves the registry as it was.
C6_SyncThrowIsolated ==
    /\ (last.op = "pushEnd" /\ last.error = "callbackThrew")
          => /\ last.result = "fulfilled"
             /\ \A o \in DOMAIN last.snapshot : last.calls[o] = 1
    /\ (last.op = "callback" /\ last.result = "throws")
          => /\ callbacks = last.pre
             /\ last.error = "caught"
    /\ (disp.active /\ disp.todo = {})
          => \A o \in DOMAIN disp.snapshot : disp.calls[o] = 1

\* C6's case: a push to the two observers of a ended, a callback threw, and
\* both are still registered.
C6_Witness ==
    /\ last.op = "pushEnd" /\ last.error = "callbackThrew"
    /\ DOMAIN last.snapshot = {"o1", "o2"}
    /\ last.calls["o1"] = 1 /\ last.calls["o2"] = 1
    /\ Registered(callbacks, "a", "o1") /\ Registered(callbacks, "a", "o2")

\* C7 as stated: no promise a callback returned rejects unhandled.
C7_NoUnhandledRejection ==
    ~(last.op = "callbackSettled" /\ last.result = "unhandledRejection")

\* C8 as stated: when onPush ends, every promise the callbacks of that push
\* returned has settled.
C8_EndsAfterCallbacksSettle ==
    last.op = "pushEnd" => asyncOut.cur = 0

\* A malformed push: no JSON, a JSON value that is no object, or an object
\* lacking cmd or data.
Malformed(raw) ==
    \/ raw.kind \in {"invalidJson", "null", "number"}
    \/ raw.kind = "object" /\ ~({"cmd", "data"} \subseteq raw.has)

\* C9 as stated: on a malformed push onPush ends without throwing, calls no
\* callback and leaves the registry as it was.
C9_MalformedPushIgnored ==
    (last.op = "push" /\ Malformed(last.push))
        => /\ last.result = "fulfilled"
           /\ ~disp.active
           /\ callbacks = last.pre

\* C10: a well-formed push for a channel with no observer (never
\* subscribed, unsubscribed, or cleared by destroy) ends without error,
\* calls no callback, sends no request and leaves the registry as it was.
C10_NoObserverPush ==
    (last.op = "push" /\ WellFormed(last.push)
        /\ ~(\E o \in Observers : Registered(last.pre, last.push.cmd, o)))
        => /\ last.result = "fulfilled"
           /\ ~disp.active
           /\ last.req = NoReq
           /\ callbacks = last.pre

\* C10's case: a push for a arrives after destroy cleared the registry.
C10_Witness ==
    /\ last.op = "push" /\ last.push.cmd = "a" /\ WellFormed(last.push)
    /\ last.result = "fulfilled"
    /\ ~isActive
    /\ callbacks = EmptyMap

\* The set of elements of the array list.
Elements(list) == {list[i] : i \in 1..Len(list)}

\* C11: a resubscription attempt made while the client is active and the
\* registry is not empty sends one Subscribe request whose cmd list names
\* each channel that has an observer once, and no other; an attempt that
\* succeeded sends nothing more and leaves no retry of its event behind.
C11_BatchedResubscribe ==
    /\ (last.op \in {"start", "timer"} /\ isActive /\ last.pre # EmptyMap)
          => /\ last.result = "awaiting"
             /\ last.req.api = "Subscribe"
             /\ last.req.header[API_KEY] = "Subscribe"
             /\ Len(last.req.cmd) = Cardinality(Elements(last.req.cmd))
             /\ Elements(last.req.cmd) =
                   {c \in Cmds : \E o \in Observers : Registered(last.pre, c, o)}
    /\ (last.op \in {"start", "timer"} /\ last.result = "awaiting")
          => Cardinality(ResubscribePending) = 1 /\ pending[CHOOSE p \in ResubscribePending : TRUE] = 1
    /\ (last.op = "resubscribeDone" /\ last.result = "returned")
          => /\ last.req = NoReq
             /\ retryTimer = NoTimer
             /\ timers = {}
             /\ ResubscribePending = {}

\* C11's case: recovery succeeded with observers on a and on b, and the one
\* Subscribe request names both.
C11_Witness ==
    /\ last.op = "start" /\ last.result = "awaiting"
    /\ Elements(last.req.cmd) = {"a", "b"}
    /\ Len(last.req.cmd) = 2

\* C12: a resubscribe that fails while the client is active schedules a
\* retry; once stop() has run the client stays stopped, and neither a retry
\* timer that fires, nor an attempt in flight that fails, nor a later
\* peer-closed event sends a request or schedules a retry.
C12_StopEndsResubscription ==
    [][ /\ ~isActive => ~isActive'
        /\ (last'.op = "resubscribeDone" /\ SendThrows(last'.error) /\ isActive')
              => /\ last'.result = "retryScheduled"
                 /\ retryTimer' \in timers' /\ retryTimer' \notin timers
        /\ (~isActive' /\ last'.op \in {"start", "timer", "resubscribeDone"})
              => /\ last'.req = NoReq
                 /\ last'.result # "awaiting"
                 /\ last'.result # "retryScheduled"
                 /\ timers' \subseteq timers
                 /\ pending' = pending \/ BagSize(pending') < BagSize(pending)
      ]_vars

\* C12's case: a retry timer fires after destroy and starts nothing.
C12_Witness ==
    /\ ~isActive
    /\ last.op = "timer" /\ last.result = "returned" /\ last.error = "inactive"
    /\ last.pre # EmptyMap

\* A resubscription attempt failed and the client may go on.
AttemptFailed ==
    /\ last.op = "resubscribeDone" /\ SendThrows(last.error)
    /\ isActive /\ callbacks # EmptyMap
\* An attempt is in flight.
AttemptStarted == last.op \in {"start", "timer"} /\ last.result = "awaiting"
\* The coordinator has nothing more to do: stopped, nothing to restore, or
\* an attempt succeeded.
ResubscriptionOver ==
    \/ ~isActive
    \/ callbacks = EmptyMap
    \/ last.op = "resubscribeDone" /\ last.result = "returned"

C14_StartCancelsPendingRetry ==
    (last.op = "start" /\ last.result = "awaiting") => timers = {}

\* C15 as stated: at most one retry timer is pending, and a pending timer is
\* the one the coordinator's handle refers to.
C15_OneRetryTimer ==
    /\ Cardinality(timers) <= 1
    /\ timers \subseteq {retryTimer}

\* C16 as stated: no resubscribe request is sent while the Recover() of a
\* peer-closed event is awaited.
C16_NoResubscribeWhileRecovering ==
    (last.op \in {"start", "timer"} /\ last.result = "awaiting") => recovering = 0

\* C17: an unsubscribe(c, o) of a channel with no entry, or of an observer
\* that is not among the channel's, throws, leaves the registry as it was
\* and hands no request to the transport.
C17_UnsubscribeUnknownRejected ==
    (last.op = "unsubscribe" /\ ~Registered(last.pre, last.cmd, last.obs))
        => /\ last.result = "threw"
           /\ last.error =
                 IF last.cmd \in DOMAIN last.pre THEN "ObserverNotFound"
                 ELSE "NoSubscriptions"
           /\ callbacks = last.pre
           /\ last.req = NoReq

\* C17's case: an observer that never subscribed to a channel others
\* observe tries to leave it.
C17_Witness ==
    /\ last.op = "unsubscribe" /\ last.error = "ObserverNotFound"
    /\ last.cmd \in DOMAIN callbacks
    /\ ~Registered(callbacks, last.cmd, last.obs)
    /\ pending = EmptyBag

\* C18: when the Unsubscribe call of a channel's last observer fails, the
\* caller gets the error and the removal stays: the failure writes nothing
\* and, no other operation having touched the registry meanwhile, the
\* channel has no entry and the observer is not registered.
C18_FailedUnsubscribeNotRolledBack ==
    /\ (last.op = "unsubscribe" /\ last.result = "awaiting")
          => last.cmd \notin DOMAIN callbacks
    /\ (last.op = "unsubscribeDone" /\ last.sendError # "")
          => /\ last.result = "threw"
             /\ last.error = last.sendError
             /\ callbacks = last.pre
             /\ last.req = NoReq
             /\ last.clean
                   => /\ callbacks = last.before
                      /\ last.cmd \notin DOMAIN callbacks
                      /\ ~Registered(callbacks, last.cmd, last.obs)

\* C18's case: the transport fails the Unsubscribe of a's last observer
\* while b keeps its own.
C18_Witness ==
    /\ last.op = "unsubscribeDone" /\ last.result = "threw"
    /\ last.error = "transportError"
    /\ last.clean
    /\ last.cmd = "a" /\ DOMAIN callbacks = {"b"}

\* C19 as stated: an operation whose response carries a server-reported
\* error fails instead of returning the response.
C19_ServerErrorFails ==
    /\ (last.op \in {"subscribeDone", "unsubscribeDone"} /\ last.error = "errMsg")
          => last.result = "threw"
    /\ (last.op = "resubscribeDone" /\ last.error = "errMsg")
          => last.result # "returned"

\* C20 as stated: a caller whose Send ended with a transport error gets
\* that very error.
C20_TransportErrorUnchanged ==
    (last.op \in {"subscribeDone", "unsubscribeDone"}
        /\ last.sendError = "transportError")
        => /\ last.result = "threw"
           /\ last.error = "transportError"

\* C21: a send, sendRaw, publish or ping whose header map holds the
\* reserved key api hands no request to the transport, and the call fails.
C21_ReservedHeaderRejected ==
    /\ (last.op \in GenericOps /\ API_KEY \in DOMAIN last.hdrIn)
          => /\ last.req = NoReq
             /\ \/ last.result = "threw"
                \/ \E p \in DOMAIN pending : p.op = last.op /\ ~p.onWire
    /\ \A p \in DOMAIN pending : ~p.onWire => Outcomes(p) = {"reservedHeader"}
    /\ (last.op \in GenericDone /\ last.error = "reservedHeader")
          => /\ last.result = "threw"
             /\ last.req = NoReq

\* C21's case: the generic send with the reserved key has failed.
C21_Witness ==
    /\ last.op = "sendDone" /\ last.error = "reservedHeader"
    /\ last.result = "threw"

\* C22 as stated: the header map a caller passed is after the call what it
\* was before.
C22_CallerHeadersUntouched == last.hdr = last.hdrIn

\* The api path each sending step names.
ExpectedApi(op) ==
    CASE op \in {"subscribe", "start", "timer"} -> "Subscribe"
      [] op = "unsubscribe" -> "Unsubscribe"
      [] op = "publish" -> "Publish"
      [] op = "ping" -> "Ping"
      [] OTHER -> "Custom"

\* C23: every request handed to the transport carries a non-empty X-Req-Id
\* and an api header equal to the call's api path; the X-Req-Id is the
\* caller's when the caller passed a non-empty one, a generated one
\* otherwise.
C23_RequestHeaders ==
    last.req # NoReq
        => /\ X_REQ_ID \in DOMAIN last.req.header
           /\ last.req.header[X_REQ_ID] # ""
           /\ API_KEY \in DOMAIN last.req.header
           /\ last.req.header[API_KEY] = last.req.api
           /\ last.req.api = ExpectedApi(last.op)
           /\ last.req.header[X_REQ_ID] =
                 IF X_REQ_ID \in DOMAIN last.hdrIn /\ last.hdrIn[X_REQ_ID] # ""
                 THEN last.hdrIn[X_REQ_ID]
                 ELSE GeneratedReqId

\* C23's case: a publish goes out with the request id of its caller.
C23_Witness ==
    /\ last.op = "publish" /\ last.req # NoReq
    /\ last.req.header[X_REQ_ID] = "rid1"
    /\ last.req.header[API_KEY] = "Publish"

\* C28: publish, ping, send and sendRaw, as they start and as they end,
\* leave the registry, the active flag and the retry timer as they were;
\* each call hands one request to the transport, or none when its header
\* map holds the reserved key or when JSON.stringify rejects the data of a
\* send.
C28_GenericCallsHaveNoLocalEffect ==
    [][ /\ (last'.op \in GenericOps \cup GenericDone)
              => /\ callbacks' = callbacks
                 /\ isActive' = isActive
                 /\ retryTimer' = retryTimer
                 /\ timers' = timers
        /\ (last'.op \in GenericOps)
              => IF API_KEY \in DOMAIN last'.hdrIn \/ last'.data # "json"
                 THEN last'.req = NoReq
                 ELSE /\ last'.req # NoReq
                      /\ last'.req.api = ExpectedApi(last'.op)
        /\ (last'.op \in GenericDone) => last'.req = NoReq
      ]_vars

\* C28 as stated: the reserved key is the one reason for a call to hand no
\* request to the transport.
C28_OneRequestUnlessReserved ==
    [][ (last'.op \in GenericOps /\ API_KEY \notin DOMAIN last'.hdrIn)
            => last'.req # NoReq
      ]_vars

\* C28's case: a send whose data JSON.stringify rejects has failed, with no
\* request, while a retry timer was pending and observers were registered.
C28_Witness ==
    /\ last.op = "send" /\ last.data = "cyclic" /\ last.result = "threw"
    /\ API_KEY \notin DOMAIN last.hdrIn /\ last.req = NoReq
    /\ retryTimer \in timers
    /\ callbacks # EmptyMap /\ callbacks = last.pre

\* The number a sequence of decimal digits writes.
RECURSIVE DigitsValue(_)
DigitsValue(s) ==
    IF s = << >> THEN 0 ELSE 10 * DigitsValue(SubSeq(s, 1, Len(s) - 1)) + s[Len(s)]

\* C24: each getNextReqId advances the shared counter by exactly 1 modulo
\* 100,000,000, whichever client asks; the identifier's two sequence fields
\* are 4 decimal digits each and together write the counter; identifiers
\* issued within a window of fewer than 100,000,000 generations, by one
\* client or by several, differ in their sequence fields.
C24_SequenceFieldsUnique ==
    /\ 0 <= globalSeqId /\ globalSeqId < 100000000
    /\ \A i \in 1..Len(issued) :
          /\ Len(issued[i].seqHigh) = 4 /\ Len(issued[i].seqLow) = 4
          /\ \A d \in 1..4 : /\ issued[i].seqHigh[d] \in 0..9
                             /\ issued[i].seqLow[d] \in 0..9
          /\ 10000 * DigitsValue(issued[i].seqHigh) + DigitsValue(issued[i].seqLow)
                = issued[i].seq
          /\ i > 1 => \/ issued[i].seq = issued[i - 1].seq + 1
                      \/ issued[i - 1].seq = 99999999 /\ issued[i].seq = 0
          /\ i = Len(issued) => issued[i].seq = globalSeqId
    /\ \A i, j \in 1..Len(issued) :
          i # j => <<issued[i].seqHigh, issued[i].seqLow>>
                      # <<issued[j].seqHigh, issued[j].seqLow>>

\* C24's case: two clients took identifiers in turn while the counter
\* wrapped from 99,999,999 to 0.
C24_Witness ==
    /\ Len(issued) >= 3
    /\ issued[1].seq = 99999999 /\ issued[1].seqHigh = <<9, 9, 9, 9>>
    /\ issued[2].seq = 0 /\ issued[2].seqLow = <<0, 0, 0, 0>>
    /\ issued[3].seq = 1 /\ issued[3].seqLow = <<0, 0, 0, 1>>
    /\ issued[1].clientId # issued[2].clientId

C26_ObserverRegisteredBeforeRequest ==
    /\ (last.op = "subscribe" /\ last.req # NoReq)
          => /\ Registered(callbacks, last.cmd, last.obs)
             /\ callbacks[last.cmd][last.obs] = last.cb
    /\ (last.op = "push" /\ WellFormed(last.push))
          => \A p \in DOMAIN pending :
                (p.op = "subscribe" /\ p.clean /\ p.cmd = last.push.cmd)
                   => /\ last.result = "dispatching"
                      /\ p.obs \in DOMAIN disp.snapshot
                      /\ p.obs \in disp.todo
                      /\ disp.snapshot[p.obs] = callbacks[p.cmd][p.obs]

\* C26's case: the callback of an observer whose subscribe is still
\* unanswered has been called with a push.
C26_Witness ==
    /\ last.op = "callback"
    /\ \E p \in DOMAIN pending :
          /\ p.op = "subscribe" /\ p.clean
          /\ p.cmd = last.cmd /\ p.obs = last.obs

\* The steps of the resubscription coordinator.
CoordinatorSteps == {"peerClosed", "peerClosedDone", "start", "timer", "resubscribeDone"}

\* C27: no step of the resubscription coordinator (the peer-closed handler,
\* start, an attempt, its answer, a retry) adds, removes or replaces an
\* entry of the registry.
C27_CoordinatorLeavesRegistry ==
    last.op \in CoordinatorSteps => callbacks = last.pre

\* C27's case: an attempt for two channels failed and a retry is scheduled.
C27_Witness ==
    /\ last.op = "resubscribeDone" /\ last.result = "retryScheduled"
    /\ DOMAIN callbacks = {"a", "b"}

\* C29: a push reaches the handler only when every callback of the pushes
\* before it has been started, and each callback that starts belongs to the
\* push delivered last.
C29_PushOrder ==
    [][ /\ last'.op = "push" => (~disp.active /\ disp.todo = {})
        /\ last'.op = "callback"
              => /\ disp.active /\ disp'.active
                 /\ last'.push = disp.push
                 /\ disp'.push = disp.push
      ]_vars

\* C29's case: a second push is being dispatched while a promise returned by
\* a callback of an earlier push is still unsettled.
C29_Witness ==
    /\ last.op = "push" /\ last.result = "dispatching"
    /\ asyncOut.old > 0

\* The string String(v) gives for a value of the inputs.
StringOf(v) ==
    CASE v.t = "string" -> v.s
      [] v.t = "number" /\ v.n = 0 -> "0"
      [] v.t = "number" /\ v.n = 42 -> "42"
      [] v.t = "boolean" /\ v.b -> "true"
      [] v.t = "boolean" /\ ~v.b -> "false"
      [] OTHER -> "[object Object]"

\* C30: for an object, getHeaderMap returns a Map with one entry per own
\* key whose value is neither null nor undefined, the value converted to a
\* string; for null, undefined, a value that is no object and the empty
\* object it returns an empty Map; it returns in every case.
C30_GetHeaderMap ==
    probe.fn = "getHeaderMap"
        => IF probe.in.t = "object"
           THEN /\ DOMAIN probe.out =
                      {k \in DOMAIN probe.in.e :
                          probe.in.e[k].t \notin {"null", "undefined"}}
                /\ \A k \in DOMAIN probe.out :
                      probe.out[k] = StringOf(probe.in.e[k])
           ELSE probe.out = EmptyMap

\* C30's case: an object with an empty string and a null gave one entry.
C30_Witness ==
    /\ probe.fn = "getHeaderMap" /\ probe.in.t = "object"
    /\ DOMAIN probe.in.e = {"X-Req-Id", "k"}
    /\ probe.in.e["k"].t = "string" /\ probe.in.e["k"].s = ""
    /\ probe.in.e["X-Req-Id"].t = "null"
    /\ DOMAIN probe.out = {"k"} /\ probe.out["k"] = ""

\* C31: the rollback of a failed subscribe removes only the registration
\* that this call inserted: a registration of the same observer made by a
\* later subscribe while the call was in flight (it holds another callback)
\* survives the failure, and no other observer is removed.
C31_RollbackOwnRegistrationOnly ==
    (/\ last.op = "subscribeDone" /\ last.result = "threw"
     /\ Registered(last.pre, last.cmd, last.obs)
     /\ last.pre[last.cmd][last.obs] # last.cb)
        => callbacks = last.pre

\* C32: whenever a channel the server holds a subscription for loses its
\* last local observer, by unsubscribe or by the rollback of a failed
\* subscribe, the step sends an Unsubscribe request for that channel.  The
\* server holds one when the rolled-back subscribe had found the channel
\* with an answered observer and no other call for the channel is in flight.
C32_UnsubscribeWhenLastObserverLost ==
    [][ \A c \in Cmds :
          (/\ MapHas(callbacks, c) /\ ~MapHas(callbacks', c)
           /\ last'.cmd = c
           /\ \/ last'.op = "unsubscribe"
              \/ /\ last'.op = "subscribeDone" /\ last'.joined
                 /\ ~\E q \in DOMAIN pending' : q.cmd = c)
              => /\ last'.req.api = "Unsubscribe"
                 /\ last'.req.cmd = <<c>>
      ]_vars

\* C33: a retry just scheduled by the failure of an attempt that began
\* after the latest peer-closed event is not cancelled by the success of an
\* older attempt, in flight since before that event.
C33_LateSuccessKeepsRetry ==
    [][ (/\ last.op = "resubscribeDone" /\ last.result = "retryScheduled"
         /\ ~last.stale
         /\ last'.op = "resubscribeDone" /\ last'.result = "returned"
         /\ last'.stale)
            => (retryTimer' = retryTimer /\ timers' = timers)
      ]_vars

\* What a failed subscribe leaves of a channel that has other observers.
OnlyObserverRemoved ==
    (/\ last.op = "subscribeDone" /\ last.result = "threw"
     /\ MapHas(last.pre, last.cmd)
     /\ DOMAIN last.pre[last.cmd] \ {last.obs} # {})
        => callbacks =
              MapSet(last.pre, last.cmd, MapDelete(last.pre[last.cmd], last.obs))

\* C34 as stated: every subscribe that is not rejected as a duplicate hands
\* one Subscribe request with cmd [c] to the transport, also when c has
\* other observers; when the request fails for a channel with other
\* observers, only o is removed.
C34_AsStated ==
    /\ (last.op = "subscribe" /\ ~Registered(last.pre, last.cmd, last.obs))
          => /\ last.req.api = "Subscribe"
             /\ last.req.cmd = <<last.cmd>>
    /\ OnlyObserverRemoved

\* C34: as above, except that the one Subscribe request with cmd [c] goes
\* out only when the caller's header map lacks the reserved key api; with
\* that key nothing is sent.  A failed subscribe removes o only from a
\* channel that has other observers when it fails: the entry and the other
\* registrations stay as they are.
C34_SubscribeAlwaysSends ==
    /\ (last.op = "subscribe" /\ ~Registered(last.pre, last.cmd, last.obs))
          => IF API_KEY \in DOMAIN last.hdr
             THEN last.req = NoReq
             ELSE /\ last.req.api = "Subscribe"
                  /\ last.req.cmd = <<last.cmd>>
                  /\ last.req.header[API_KEY] = "Subscribe"
    /\ OnlyObserverRemoved

\* C34's case: o2 subscribes to a, which o1 has subscribed to with the
\* server's answer received, and a Subscribe request for a goes out again.
C34_Witness ==
    /\ last.op = "subscribe" /\ last.cmd = "a" /\ last.obs = "o2"
    /\ Registered(last.pre, "a", "o1")
    /\ \E p \in DOMAIN pending : p.op = "subscribe" /\ p.obs = "o2" /\ p.joined
    /\ last.req.api = "Subscribe" /\ last.req.cmd = <<"a">>

\* C35: an attempt that finds no channel with observers, after a recovery
\* or when a retry timer fires, sends no request and schedules no retry
\* timer, and the coordinator is then idle: no retry is pending.
C35_EmptyAttemptLeavesIdle ==
    (last.op \in {"start", "timer"} /\ last.error = "nothingToRestore")
        => /\ last.req = NoReq
           /\ timers = {}

\* The step that ends a peer-closed handler whose Recover() rejected sends
\* nothing, schedules no timer and changes neither registry nor coordinator.
FailedRecoveryStartsNothing ==
    last'.op = "peerClosedDone"
        => /\ last'.result = "threw" /\ last'.req = NoReq
           /\ pending' = pending
           /\ timers' = timers /\ retryTimer' = retryTimer
           /\ callbacks' = callbacks /\ isActive' = isActive

\* C36 as stated: when Recover() rejects, no request is sent and no retry
\* timer is scheduled for that event, and a resubscribe request goes out
\* again only after a later peer-closed event has recovered: not in the
\* step that follows the rejection.
C36_AsStated ==
    [][ /\ FailedRecoveryStartsNothing
        /\ last.op = "peerClosedDone"
              => ~(last'.op \in {"start", "timer"} /\ last'.req # NoReq)
      ]_vars

\* C36: when Recover() rejects, no request is sent and no retry timer is
\* scheduled for that event.  An attempt begins only in the handler of an
\* event whose Recover() resolved, or when a retry timer fires that was
\* pending; a timer is scheduled only by an attempt that ended.
C36_RecoverFailureStartsNothing ==
    [][ /\ FailedRecoveryStartsNothing
        /\ last'.req.api = "Subscribe" /\ last'.op \notin {"subscribe"}
              => \/ last'.op = "start" /\ recovering' = recovering - 1
                 \/ last'.op = "timer" /\ timers' # timers /\ timers' \subseteq timers
        /\ timers' \ timers # {} => last'.op = "resubscribeDone"
      ]_vars

\* C36's case: Recover() rejected while the client is active, a channel has
\* an observer and a retry of an earlier event is pending.
C36_Witness ==
    /\ last.op = "peerClosedDone" /\ last.result = "threw"
    /\ isActive /\ callbacks # EmptyMap
    /\ retryTimer \in timers

\* C37: the observers called for a push are those registered under its cmd
\* when its dispatch starts, each once with the callback registered then:
\* the set does not change while the dispatch lasts, an observer that a
\* callback of the dispatch has unsubscribed is called all the same, one
\* that a callback has subscribed is not, and the next push takes the
\* registry as it is then.
C37_ObserversFixedAtDispatch ==
    [][ /\ (last'.op = "push" /\ last'.result = "dispatching")
              => /\ disp'.snapshot = callbacks[last'.cmd]
                 /\ disp'.todo = DOMAIN callbacks[last'.cmd]
        /\ (disp.active /\ disp'.active) => disp'.snapshot = disp.snapshot
        /\ last'.op = "callback"
              => /\ last'.obs \in DOMAIN disp.snapshot
                 /\ last'.cb = disp.snapshot[last'.obs]
                 /\ disp.calls[last'.obs] = 0
        /\ last'.op = "pushEnd"
              => /\ last'.snapshot = disp.snapshot
                 /\ \A o \in Observers :
                       last'.calls[o] = IF o \in DOMAIN disp.snapshot THEN 1 ELSE 0
      ]_vars

\* C37's case: o2's callback is called for a push to a although o1's
\* callback, called before it in the same dispatch, has unsubscribed o2.
C37_Witness ==
    /\ last.op = "callback" /\ last.cmd = "a" /\ last.obs = "o2"
    /\ disp.active
    /\ DOMAIN disp.snapshot = {"o1", "o2"}
    /\ ~Registered(callbacks, "a", "o2")

\* What destroy does and what follows from it, pushes apart: the step
\* empties the registry, cancels the retry timer the coordinator holds,
\* clears the active flag and sends nothing; the flag stays cleared; a
\* stopped coordinator sends no request and schedules no timer, whatever
\* the registry holds; a peer-closed event calls Recover() all the same.
DestroyStops ==
    /\ last'.op = "destroy"
          => /\ callbacks' = EmptyMap
             /\ ~isActive'
             /\ retryTimer' = NoTimer /\ timers' = timers \ {retryTimer}
             /\ last'.req = NoReq
             /\ BagSize(pending') = BagSize(pending)
    /\ ~isActive => ~isActive'
    /\ (~isActive /\ last'.op \in CoordinatorSteps)
          => /\ last'.req = NoReq
             /\ timers' \subseteq timers
    /\ last'.op = "peerClosed" => recovering' = recovering + 1

C39_EmptyDataIsMalformed ==
    (/\ last.op = "push" /\ last.push.kind = "object"
     /\ {"cmd", "data"} \subseteq last.push.has
     /\ last.push.cmd # "" /\ last.push.data = "")
        => /\ last.result = "fulfilled" /\ last.error = "invalidFormat"
           /\ last.snapshot = EmptyMap
           /\ ~disp.active
           /\ callbacks = last.pre

\* C39's case: a push for a with data "" came while o1 and o2 are
\* registered under a.
C39_Witness ==
    /\ last.op = "push" /\ last.push.kind = "object"
    /\ last.push.has = {"cmd", "data"}
    /\ last.push.cmd = "a" /\ last.push.data = ""
    /\ MapHas(callbacks, "a") /\ DOMAIN callbacks["a"] = {"o1", "o2"}

=============================================================================
